---- MODULE Spec2Model ----
(***************************************************************************)
(* Model of test_kvc/main.cpp: a linear script that loads a model and a    *)
(* vision projector, evaluates a prompt holding two images, generates 5    *)
(* tokens, removes the first image from the KV cache, shifts the later     *)
(* positions back and generates up to 50 more tokens.                      *)
(*                                                                         *)
(* The script's own control flow (main, get_model_arch, build_prompt,      *)
(* generate_tokens) is translated from the source.  The runtime's cache    *)
(* editing calls (llama_memory_seq_rm / seq_add / seq_pos_max) and the     *)
(* effect of evaluation and decoding on the cache are not in the source    *)
(* file; they are modelled from the specification's glossary.              *)
(***************************************************************************)
EXTENDS Integers, Sequences, FiniteSets

VARIABLES
    argc,         \* main's argc
    gguf,         \* the model file's metadata: [has_key, value] of general.architecture
    pc,           \* position in main / generate_tokens
    arch,         \* main's local `arch`
    prompt,       \* main's local `prompt`
    chunks_npos,  \* number of positions the tokenized chunks occupy
    n_pos,        \* main's local `n_pos` (passed by reference to generate_tokens)
    cells,        \* KV cache of sequence 0: cells[j] is the position of cell j, -1 when empty
    i,            \* generate_tokens' loop index
    count,        \* generate_tokens' parameter `count`
    pass,         \* which generate_tokens call is running (0: none yet)
    n_pos_entry,  \* value of n_pos when the running generate_tokens call was entered
    trace,        \* library calls made so far, in order
    out,          \* messages printed so far, in order
    failed,       \* failures the checked library calls have reported
    ended,        \* "running", "return" or "uncaught_exception"
    exit_code,    \* value returned from main (meaningful when ended = "return")
    acq,          \* per handle: number of acquisitions
    rel,          \* per handle: number of releases
    uaf           \* a handle was used after its release

vars == <<argc, gguf, pc, arch, prompt, chunks_npos, n_pos, cells, i, count, pass,
          n_pos_entry, trace, out, failed, ended, exit_code, acq, rel, uaf>>

----------------------------------------------------------------------------
(* Bounds of the model *)

MaxArgc == 4
MaxSuffix == 2

(* Program constants *)

FirstCount == 5
SecondCount == 50
PREFIX_LEN == 3
REMOVE_START == PREFIX_LEN

ArgcValues == 1..MaxArgc
ArchValues == {"qwen3vl", "gemma3", "qwen2vl", "llama"}
GgufFiles ==
    {[has_key |-> FALSE, value |-> ""]} \cup {[has_key |-> TRUE, value |-> a] : a \in ArchValues}
LibResults == {-1, 0, 1, 2}

RAII == {"model", "ctx", "mtmd_ctx", "img1", "img2", "chunks"}
Handles == RAII \cup {"sampler", "batch1", "batch2"}

----------------------------------------------------------------------------
(* Pure helpers of the script *)

\* C++ contextual conversion of an integer result to bool in `if (call(...))`
TruthyNegOnly(v) == v < 0
Truthy(v) == v # 0

\* get_model_arch: the key's value, or a thrown runtime_error
get_model_arch_unchecked(file) == [ok |-> TRUE, val |-> file.value]
get_model_arch(file) ==
    IF ~file.has_key
    THEN [ok |-> FALSE, val |-> "Architecture key not found"]
    ELSE [ok |-> TRUE, val |-> file.value]

\* main's architecture check
SupportedAny(a) == TRUE
Supported(a) == ~(a # "qwen3vl" /\ a # "gemma3")

\* build_prompt: the prompt template, or a thrown runtime_error
build_prompt(a) ==
    IF a = "qwen3vl"
    THEN [ok |-> TRUE,
          val |-> "<|im_start|>user\n<__media__><__media__>what is in the image?<|im_end|>\n<|im_start|>assistant\n"]
    ELSE IF a = "gemma3"
    THEN [ok |-> TRUE,
          val |-> "<start_of_turn>user\n<__media__><__media__><end_of_turn>\n<start_of_turn>model\n"]
    ELSE [ok |-> FALSE, val |-> "Unsupported architecture: " \o a]

first_image_npos(a) == IF a = "qwen3vl" THEN 3 ELSE 258

remove_end_short(a) == PREFIX_LEN + first_image_npos(a) - 1
remove_end(a) == PREFIX_LEN + first_image_npos(a)

\* `for (int i = 0; i < count; i++)`: where control goes when the test is made
LoopNextOffByOne(k, n) == IF k <= n THEN "gen_sample" ELSE "gen_free"
LoopNext(k, n) == IF k < n THEN "gen_sample" ELSE "gen_free"

\* `break` inside the loop leaves it for llama_batch_free
BreakTargetReturn == "gen_ret"
BreakTarget == "gen_free"

\* where generate_tokens returns to: the two call sites in main
ReturnToFinish(p) == "finish"
ReturnTo(p) == IF p = 1 THEN "shift_info" ELSE "finish"

\* statement order of the shift section of main
FallthroughSwapped(l) ==
    IF l = "shift_info" THEN "seq_add"
    ELSE IF l = "seq_add" THEN "seq_rm"
    ELSE "reset_n_pos"
Fallthrough(l) ==
    IF l = "shift_info" THEN "seq_rm"
    ELSE IF l = "seq_rm" THEN "seq_add"
    ELSE "reset_n_pos"

\* the batch handle of the running generate_tokens call
Batch(p) == IF p = 1 THEN "batch1" ELSE "batch2"

\* destructors run when main returns: every scoped owner that holds a handle frees it
ScopeExit(a, r) == [h \in Handles |-> IF h \in RAII /\ a[h] > r[h] THEN r[h] + 1 ELSE r[h]]

Acquire(a, hs) == [h \in Handles |-> IF h \in hs THEN a[h] + 1 ELSE a[h]]
Release(r, hs) == [h \in Handles |-> IF h \in hs THEN r[h] + 1 ELSE r[h]]
UsedAfterRelease(hs) == \E h \in hs : rel[h] > 0

----------------------------------------------------------------------------
(* The runtime's KV cache of sequence 0 *)

Live(c) == {j \in DOMAIN c : c[j] >= 0}
Positions(c) == {c[j] : j \in Live(c)}

\* largest position in the sequence, -1 when it is empty: a scan of the cells lo..hi
RECURSIVE PosMaxIn(_, _, _)
PosMaxIn(c, lo, hi) ==
    IF lo > hi THEN -1
    ELSE IF lo = hi THEN c[lo]
    ELSE LET mid == (lo + hi) \div 2
             l == PosMaxIn(c, lo, mid)
             r == PosMaxIn(c, mid + 1, hi)
         IN  IF l > r THEN l ELSE r

llama_memory_seq_pos_max(c) == PosMaxIn(c, 1, Len(c))

\* remove the cells with position in [p0, p1); a negative p1 means no upper limit
llama_memory_seq_rm(c, p0, p1) ==
    [j \in DOMAIN c |-> IF c[j] >= p0 /\ (p1 < 0 \/ c[j] < p1) THEN -1 ELSE c[j]]

\* add delta to the position of the cells in [p0, p1); a negative p1 means no upper limit
llama_memory_seq_add(c, p0, p1, delta) ==
    [j \in DOMAIN c |-> IF c[j] >= p0 /\ (p1 < 0 \/ c[j] < p1) THEN c[j] + delta ELSE c[j]]

\* a successful evaluation of n positions starting at p stores one cell per position
EvalCells(c, p, n) == c \o [j \in 1..n |-> p + j - 1]

\* the positions the tokenized prompt occupies: prefix, two images, text after them
PromptPositions(a, suffix) == PREFIX_LEN + 2 * first_image_npos(a) + suffix

\* n_pos after the shift: queried from the cache
NewNPosArithmetic == n_pos - first_image_npos(arch)
NewNPos == llama_memory_seq_pos_max(cells) + 1

----------------------------------------------------------------------------
(* Ways main ends *)

Log(calls) == trace' = trace \o calls
Say(msgs) == out' = out \o msgs

\* `return code;` from main: scoped owners release what they hold
ReturnFromMain(code, r) ==
    /\ pc' = "done"
    /\ ended' = "return"
    /\ exit_code' = code
    /\ rel' = ScopeExit(acq', r)

\* a runtime_error nothing catches: std::terminate; whether the stack is unwound
\* (and scoped owners release) is up to the implementation
Uncaught ==
    /\ pc' = "done"
    /\ ended' = "uncaught_exception"
    /\ exit_code' = exit_code
    /\ \E unwind \in BOOLEAN : rel' = IF unwind THEN ScopeExit(acq', rel) ELSE rel

----------------------------------------------------------------------------
Init ==
    /\ argc \in ArgcValues
    /\ gguf \in GgufFiles
    /\ pc = "start"
    /\ arch = ""
    /\ prompt = ""
    /\ chunks_npos = 0
    /\ n_pos = 0
    /\ cells = <<>>
    /\ i = 0
    /\ count = 0
    /\ pass = 0
    /\ n_pos_entry = 0
    /\ trace = <<>>
    /\ out = <<>>
    /\ failed = {}
    /\ ended = "running"
    /\ exit_code = 0
    /\ acq = [h \in Handles |-> 0]
    /\ rel = [h \in Handles |-> 0]
    /\ uaf = FALSE

\* main: the argc check, then common_init
CheckArgs ==
    /\ pc = "start"
    /\ acq' = acq
    /\ IF argc # 3
       THEN /\ Say(<<"Usage">>)
            /\ Log(<<>>)
            /\ ReturnFromMain(1, rel)
       ELSE /\ Log(<<"common_init">>)
            /\ pc' = "get_arch"
            /\ UNCHANGED <<out, ended, exit_code, rel>>
    /\ UNCHANGED <<argc, gguf, arch, prompt, chunks_npos, n_pos, cells, i, count, pass,
                   n_pos_entry, failed, uaf>>

\* main: arch = get_model_arch(argv[1]), printed
GetModelArch ==
    /\ pc = "get_arch"
    /\ acq' = acq
    /\ LET r == get_model_arch(gguf) IN
       IF r.ok
       THEN /\ Log(<<"get_model_arch", "gguf_init_from_file", "gguf_find_key", "gguf_get_val_str">>)
            /\ arch' = r.val
            /\ Say(<<"Model architecture">>)
            /\ pc' = "check_arch"
            /\ UNCHANGED <<ended, exit_code, rel>>
       ELSE /\ Log(<<"get_model_arch", "gguf_init_from_file", "gguf_find_key">>)
            /\ Uncaught
            /\ UNCHANGED <<arch, out>>
    /\ UNCHANGED <<argc, gguf, prompt, chunks_npos, n_pos, cells, i, count, pass,
                   n_pos_entry, failed, uaf>>

\* main: only qwen3vl and gemma3 go on
CheckArch ==
    /\ pc = "check_arch"
    /\ acq' = acq
    /\ IF ~Supported(arch)
       THEN /\ Say(<<"Only qwen3vl and gemma3 are supported">>)
            /\ ReturnFromMain(1, rel)
       ELSE /\ pc' = "init_model"
            /\ UNCHANGED <<out, ended, exit_code, rel>>
    /\ UNCHANGED <<argc, gguf, arch, prompt, chunks_npos, n_pos, cells, i, count, pass,
                   n_pos_entry, trace, failed, uaf>>

\* main: model, context and vision projector
InitModel ==
    /\ pc = "init_model"
    /\ Log(<<"common_init_from_params", "mtmd_context_params_default", "mtmd_init_from_file">>)
    /\ acq' = Acquire(acq, {"model", "ctx", "mtmd_ctx"})
    /\ uaf' = (uaf \/ UsedAfterRelease({"model"}))
    /\ pc' = "load_images"
    /\ UNCHANGED <<argc, gguf, arch, prompt, chunks_npos, n_pos, cells, i, count, pass,
                   n_pos_entry, out, failed, ended, exit_code, rel>>

\* main: both bitmaps are loaded, then both are checked
LoadImages ==
    /\ pc = "load_images"
    /\ Log(<<"mtmd_helper_bitmap_init_from_file", "mtmd_helper_bitmap_init_from_file">>)
    /\ uaf' = (uaf \/ UsedAfterRelease({"mtmd_ctx"}))
    /\ \E ok1 \in BOOLEAN, ok2 \in BOOLEAN :
         /\ acq' = Acquire(acq, {h \in {"img1", "img2"} : (h = "img1" /\ ok1) \/ (h = "img2" /\ ok2)})
         /\ failed' = IF ok1 /\ ok2 THEN failed ELSE failed \cup {"image_load"}
         /\ IF ~ok1 \/ ~ok2
            THEN /\ Say(<<"Failed to load image">>)
                 /\ ReturnFromMain(1, rel)
            ELSE /\ pc' = "build_prompt"
                 /\ UNCHANGED <<out, ended, exit_code, rel>>
    /\ UNCHANGED <<argc, gguf, arch, prompt, chunks_npos, n_pos, cells, i, count, pass,
                   n_pos_entry>>

\* main: prompt = build_prompt(arch), and the empty chunk list
BuildPrompt ==
    /\ pc = "build_prompt"
    /\ LET r == build_prompt(arch) IN
       IF r.ok
       THEN /\ prompt' = r.val
            /\ Log(<<"build_prompt", "mtmd_input_chunks_init">>)
            /\ acq' = Acquire(acq, {"chunks"})
            /\ pc' = "tokenize"
            /\ UNCHANGED <<ended, exit_code, rel>>
       ELSE /\ Log(<<"build_prompt">>)
            /\ acq' = acq
            /\ Uncaught
            /\ UNCHANGED prompt
    /\ UNCHANGED <<argc, gguf, arch, chunks_npos, n_pos, cells, i, count, pass,
                   n_pos_entry, out, failed, uaf>>

\* main: mtmd_tokenize of the prompt and the two bitmaps
Tokenize ==
    /\ pc = "tokenize"
    /\ Log(<<"mtmd_tokenize">>)
    /\ acq' = acq
    /\ uaf' = (uaf \/ UsedAfterRelease({"mtmd_ctx", "chunks", "img1", "img2"}))
    /\ \E res \in LibResults, suffix \in 1..MaxSuffix :
         /\ failed' = IF res # 0 THEN failed \cup {"tokenize"} ELSE failed
         /\ chunks_npos' = IF res = 0 THEN PromptPositions(arch, suffix) ELSE chunks_npos
         /\ IF Truthy(res)
            THEN /\ Say(<<"Tokenization failed">>)
                 /\ ReturnFromMain(1, rel)
            ELSE /\ pc' = "eval"
                 /\ UNCHANGED <<out, ended, exit_code, rel>>
    /\ UNCHANGED <<argc, gguf, arch, prompt, n_pos, cells, i, count, pass, n_pos_entry>>

\* main: n_pos = 0, then mtmd_helper_eval_chunks writes the new n_pos
EvalChunks ==
    /\ pc = "eval"
    /\ Log(<<"mtmd_helper_eval_chunks">>)
    /\ acq' = acq
    /\ uaf' = (uaf \/ UsedAfterRelease({"mtmd_ctx", "ctx", "chunks"}))
    /\ \E res \in LibResults, done \in {0, PREFIX_LEN} :
         /\ failed' = IF res # 0 THEN failed \cup {"eval"} ELSE failed
         /\ cells' = EvalCells(cells, 0, IF res = 0 THEN chunks_npos ELSE done)
         /\ n_pos' = IF res = 0 THEN chunks_npos ELSE done
         /\ IF Truthy(res)
            THEN /\ Say(<<"Evaluating prompt with 2 images...", "Evaluation failed">>)
                 /\ ReturnFromMain(1, rel)
            ELSE /\ Say(<<"Evaluating prompt with 2 images...", "Position after mtmd evaluation">>)
                 /\ pc' = "sampler_init"
                 /\ UNCHANGED <<ended, exit_code, rel>>
    /\ UNCHANGED <<argc, gguf, arch, prompt, chunks_npos, i, count, pass, n_pos_entry>>

\* main: the sampler, then the call generate_tokens(..., 5, "Before cache shift")
SamplerInit ==
    /\ pc = "sampler_init"
    /\ Log(<<"common_sampler_init", "generate_tokens">>)
    /\ acq' = Acquire(acq, {"sampler"})
    /\ uaf' = (uaf \/ UsedAfterRelease({"model"}))
    /\ count' = FirstCount
    /\ pass' = 1
    /\ pc' = "gen_enter"
    /\ UNCHANGED <<argc, gguf, arch, prompt, chunks_npos, n_pos, cells, i, n_pos_entry,
                   out, failed, ended, exit_code, rel>>

\* generate_tokens: header, llama_batch_init, i = 0 and the first loop test
GenEnter ==
    /\ pc = "gen_enter"
    /\ Say(<<"=== Generation ===">>)
    /\ Log(<<"llama_batch_init">>)
    /\ acq' = Acquire(acq, {Batch(pass)})
    /\ n_pos_entry' = n_pos
    /\ i' = 0
    /\ pc' = LoopNext(0, count)
    /\ UNCHANGED <<argc, gguf, arch, prompt, chunks_npos, n_pos, cells, count, pass,
                   failed, ended, exit_code, rel, uaf>>

\* generate_tokens: sample, accept, print the piece, stop on end of generation
GenSample ==
    /\ pc = "gen_sample"
    /\ Log(<<"common_sampler_sample", "common_sampler_accept", "common_token_to_piece",
             "llama_vocab_is_eog">>)
    /\ uaf' = (uaf \/ UsedAfterRelease({"sampler", "ctx", "model"}))
    /\ \E eog \in BOOLEAN :
         IF eog
         THEN /\ Say(<<"piece", " [EOS]">>)
              /\ pc' = BreakTarget
         ELSE /\ Say(<<"piece">>)
              /\ pc' = "gen_decode"
    /\ UNCHANGED <<argc, gguf, arch, prompt, chunks_npos, n_pos, cells, i, count, pass,
                   n_pos_entry, failed, ended, exit_code, acq, rel>>

\* generate_tokens: the token goes into the batch at n_pos++, llama_decode, i++ and the loop test
GenDecode ==
    /\ pc = "gen_decode"
    /\ Log(<<"common_batch_clear", "common_batch_add", "llama_decode">>)
    /\ uaf' = (uaf \/ UsedAfterRelease({"ctx", Batch(pass)}))
    /\ n_pos' = n_pos + 1
    /\ \E res \in LibResults :
         /\ cells' = IF res = 0 THEN EvalCells(cells, n_pos, 1) ELSE cells
         /\ failed' = IF res # 0 THEN failed \cup {"decode"} ELSE failed
         /\ IF Truthy(res)
            THEN /\ Say(<<" [DECODE_FAILED]">>)
                 /\ pc' = BreakTarget
                 /\ i' = i
            ELSE /\ i' = i + 1
                 /\ pc' = LoopNext(i + 1, count)
                 /\ out' = out
    /\ UNCHANGED <<argc, gguf, arch, prompt, chunks_npos, count, pass, n_pos_entry,
                   ended, exit_code, acq, rel>>

\* generate_tokens: llama_batch_free and the closing newline
GenFree ==
    /\ pc = "gen_free"
    /\ Log(<<"llama_batch_free">>)
    /\ Say(<<"\n">>)
    /\ uaf' = (uaf \/ UsedAfterRelease({Batch(pass)}))
    /\ rel' = Release(rel, {Batch(pass)})
    /\ pc' = "gen_ret"
    /\ UNCHANGED <<argc, gguf, arch, prompt, chunks_npos, n_pos, cells, i, count, pass,
                   n_pos_entry, failed, ended, exit_code, acq>>

\* generate_tokens returns to its call site
GenReturn ==
    /\ pc = "gen_ret"
    /\ pc' = ReturnTo(pass)
    /\ UNCHANGED <<argc, gguf, arch, prompt, chunks_npos, n_pos, cells, i, count, pass,
                   n_pos_entry, trace, out, failed, ended, exit_code, acq, rel, uaf>>

\* main: the shift section's constants and its first two printouts
ShiftInfo ==
    /\ pc = "shift_info"
    /\ Log(<<"llama_get_memory", "llama_memory_seq_pos_max">>)
    /\ Say(<<"=== Shift ===", "Next available cache pos before shift", "Removing first image">>)
    /\ uaf' = (uaf \/ UsedAfterRelease({"ctx"}))
    /\ pc' = Fallthrough("shift_info")
    /\ UNCHANGED <<argc, gguf, arch, prompt, chunks_npos, n_pos, cells, i, count, pass,
                   n_pos_entry, failed, ended, exit_code, acq, rel>>

\* main: llama_memory_seq_rm(mem, 0, REMOVE_START, remove_end)
SeqRm ==
    /\ pc = "seq_rm"
    /\ Log(<<"llama_memory_seq_rm">>)
    /\ cells' = llama_memory_seq_rm(cells, REMOVE_START, remove_end(arch))
    /\ uaf' = (uaf \/ UsedAfterRelease({"ctx"}))
    /\ pc' = Fallthrough("seq_rm")
    /\ UNCHANGED <<argc, gguf, arch, prompt, chunks_npos, n_pos, i, count, pass,
                   n_pos_entry, out, failed, ended, exit_code, acq, rel>>

\* main: llama_memory_seq_add(mem, 0, remove_end, -1, -first_image_npos)
SeqAdd ==
    /\ pc = "seq_add"
    /\ Say(<<"Shifting remaining tokens back">>)
    /\ Log(<<"llama_memory_seq_add">>)
    /\ cells' = llama_memory_seq_add(cells, remove_end(arch), -1, 0 - first_image_npos(arch))
    /\ uaf' = (uaf \/ UsedAfterRelease({"ctx"}))
    /\ pc' = Fallthrough("seq_add")
    /\ UNCHANGED <<argc, gguf, arch, prompt, chunks_npos, n_pos, i, count, pass,
                   n_pos_entry, failed, ended, exit_code, acq, rel>>

\* main: n_pos = seq_pos_max + 1, then the call generate_tokens(..., 50, "After cache shift")
ResetNPos ==
    /\ pc = "reset_n_pos"
    /\ Log(<<"llama_memory_seq_pos_max", "generate_tokens">>)
    /\ Say(<<"New n_pos (next available cache pos) after shift">>)
    /\ n_pos' = NewNPos
    /\ uaf' = (uaf \/ UsedAfterRelease({"ctx"}))
    /\ count' = SecondCount
    /\ pass' = 2
    /\ pc' = "gen_enter"
    /\ UNCHANGED <<argc, gguf, arch, prompt, chunks_npos, cells, i, n_pos_entry,
                   failed, ended, exit_code, acq, rel>>

\* main: common_sampler_free and return 0
Finish ==
    /\ pc = "finish"
    /\ Log(<<"common_sampler_free">>)
    /\ uaf' = (uaf \/ UsedAfterRelease({"sampler"}))
    /\ acq' = acq
    /\ ReturnFromMain(0, Release(rel, {"sampler"}))
    /\ UNCHANGED <<argc, gguf, arch, prompt, chunks_npos, n_pos, cells, i, count, pass,
                   n_pos_entry, out, failed>>

Next ==
    \/ CheckArgs
    \/ GetModelArch
    \/ CheckArch
    \/ InitModel
    \/ LoadImages
    \/ BuildPrompt
    \/ Tokenize
    \/ EvalChunks
    \/ SamplerInit
    \/ GenEnter
    \/ GenSample
    \/ GenDecode
    \/ GenFree
    \/ GenReturn
    \/ ShiftInfo
    \/ SeqRm
    \/ SeqAdd
    \/ ResetNPos
    \/ Finish

Spec == Init /\ [][Next]_vars

----------------------------------------------------------------------------
(* Vocabulary of the properties *)

Range(s) == {s[j] : j \in DOMAIN s}
Idx(e) == {j \in DOMAIN trace : trace[j] = e}
Calls(e) == Cardinality(Idx(e))

\* calls of e made by the generate_tokens call that is running or ran last
PassStart == CHOOSE j \in Idx("llama_batch_init") : \A k \in Idx("llama_batch_init") : k <= j
CallsAfter(e, start) == Cardinality({j \in DOMAIN trace : j > start /\ trace[j] = e})

UsageError == argc # 3
MissingArchKey == argc = 3 /\ ~gguf.has_key
UnsupportedArch == argc = 3 /\ gguf.has_key /\ gguf.value \notin {"qwen3vl", "gemma3"}
SetupFailed == failed \cap {"image_load", "tokenize", "eval"} # {}
ExitOneCause == UsageError \/ UnsupportedArch \/ SetupFailed
EvalSucceeded == Idx("mtmd_helper_eval_chunks") # {} /\ "eval" \notin failed
Returned(code) == pc = "done" /\ ended = "return" /\ exit_code = code
LastSaid(m) == Len(out) > 0 /\ out[Len(out)] = m

\* the first generation pass ended by a failed decode
FirstPassFailedDecode ==
    \E j \in DOMAIN out :
        /\ out[j] = " [DECODE_FAILED]"
        /\ \A k \in 1..j : out[k] # "=== Shift ==="

----------------------------------------------------------------------------
\* C1 (as stated): a finished run has exit code 1 when it hit a usage error, an
\* unsupported architecture, an image load, tokenization or evaluation failure, and
\* exit code 0 in every other run.
C1_Original ==
    pc = "done" => ended = "return" /\ exit_code = (IF ExitOneCause THEN 1 ELSE 0)

\* C1 (amended): a run whose model file lacks the architecture key ends by an uncaught
\* exception and returns no exit code; every other run returns from main, with exit
\* code 1 exactly when it hit one of the five listed failures and 0 otherwise.
C1_ExitCode ==
    pc = "done" =>
        /\ (ended = "uncaught_exception") <=> MissingArchKey
        /\ (ended = "return") <=> ~MissingArchKey
        /\ ended = "return" => exit_code = (IF ExitOneCause THEN 1 ELSE 0)

C1_Witness == Returned(1) /\ "eval" \in failed

\* C2 (as stated): whenever a checked library call reports a failure (image load,
\* tokenization, evaluation, or llama_decode in a generation pass) a message is
\* printed and the process ends with a non-zero exit code.
C2_Original ==
    pc = "done" /\ failed # {} =>
        /\ ended = "return" /\ exit_code # 0
        /\ Range(out) \cap {"Failed to load image", "Tokenization failed", "Evaluation failed",
                            " [DECODE_FAILED]"} # {}

\* C2 (amended): a failed image load, tokenization or evaluation prints its message
\* as the last output and the run returns 1; a failed llama_decode in a generation
\* pass prints " [DECODE_FAILED]" and the run still returns 0.
C2_Surfaced ==
    /\ "image_load" \in failed => Returned(1) /\ LastSaid("Failed to load image")
    /\ "tokenize" \in failed => Returned(1) /\ LastSaid("Tokenization failed")
    /\ "eval" \in failed => Returned(1) /\ LastSaid("Evaluation failed")
    /\ "decode" \in failed =>
          /\ " [DECODE_FAILED]" \in Range(out)
          /\ pc = "done" => Returned(0)

C2_Witness == Returned(0) /\ "decode" \in failed

\* C3 (as stated): exactly two failure kinds end the run by an uncaught exception:
\* a missing architecture key and an unsupported architecture.
C3_Original ==
    pc = "done" => ((ended = "uncaught_exception") <=> (MissingArchKey \/ UnsupportedArch))

\* C3 (amended): exactly one failure kind ends the run by an uncaught exception, the
\* missing architecture key; an unsupported architecture is caught by main's check,
\* which returns 1 before build_prompt is called, so build_prompt never throws.
C3_OnlyMissingKeyThrows ==
    /\ pc = "done" => ((ended = "uncaught_exception") <=> MissingArchKey)
    /\ pc = "done" /\ UnsupportedArch => Returned(1) /\ Calls("build_prompt") = 0
    /\ pc = "build_prompt" => build_prompt(arch).ok

C3_Witness == pc = "done" /\ ended = "uncaught_exception" /\ MissingArchKey

\* C4: when evaluation succeeds the calls come in the order evaluation, first pass,
\* llama_memory_seq_rm, llama_memory_seq_add, second pass; nothing is called between
\* the removal and the shift, and the second pass always starts.
C4_Order ==
    LET G == Idx("generate_tokens")
        E == Idx("mtmd_helper_eval_chunks")
        R == Idx("llama_memory_seq_rm")
        A == Idx("llama_memory_seq_add")
        S == Idx("common_sampler_sample")
        D == Idx("llama_decode")
    IN  /\ Cardinality(E) <= 1 /\ Cardinality(R) <= 1 /\ Cardinality(A) <= 1
        /\ Cardinality(G) <= 2
        /\ \A g \in G : EvalSucceeded /\ \E e \in E : e < g
        /\ \A j \in S \cup D : \E g \in G : g < j
        /\ \A r \in R :
              /\ Cardinality({g \in G : g < r}) = 1
              /\ \E j \in S : j < r
              /\ \A j \in S \cup D : j > r => \E g \in G : r < g /\ g < j
        /\ \A a \in A : a - 1 \in R
        /\ \A g \in G, h \in G : g < h => \E a \in A : g < a /\ a < h
        /\ pc = "done" /\ EvalSucceeded =>
              /\ Cardinality(G) = 2 /\ Cardinality(R) = 1 /\ Cardinality(A) = 1
              /\ \E j \in S : \A g \in G : g < j

C4_Witness == Returned(0) /\ FirstPassFailedDecode /\ Calls("generate_tokens") = 2

\* C5: before the shift sequence 0 holds exactly the positions 0..N-1, N >= 3+k; after
\* seq_rm(3, 3+k) and seq_add(3+k, -1, -k) it holds exactly 0..N-k-1 without gap or
\* duplicate, cells 0..2 keep their position, the cell formerly at p >= 3+k is at p-k,
\* and n_pos is set to N-k.
C5_ShiftClosesGap ==
    LET k == first_image_npos(arch)
        N == Len(cells)
    IN  /\ pc \in {"shift_info", "seq_rm"} =>
              /\ N >= PREFIX_LEN + k
              /\ \A j \in 1..N : cells[j] = j - 1
        /\ pc = "seq_add" =>
              \A j \in 1..N :
                  cells[j] = (IF j - 1 >= PREFIX_LEN /\ j - 1 < PREFIX_LEN + k THEN -1 ELSE j - 1)
        /\ pc = "reset_n_pos" \/ (pc = "gen_enter" /\ pass = 2) =>
              /\ \A j \in 1..N :
                    cells[j] = (IF j - 1 < PREFIX_LEN THEN j - 1
                                ELSE IF j - 1 < PREFIX_LEN + k THEN -1
                                ELSE j - 1 - k)
              /\ Positions(cells) = 0..(N - k - 1)
              /\ Cardinality(Live(cells)) = Cardinality(Positions(cells))
        /\ pc = "gen_enter" /\ pass = 2 => n_pos = N - k

C5_Witness ==
    /\ pc = "gen_enter" /\ pass = 2 /\ arch = "gemma3"
    /\ FirstPassFailedDecode
    /\ n_pos = Len(cells) - 258

\* C6: every handle is released exactly once on every path that returns from main,
\* none is used after its release, and each generate_tokens call frees its batch
\* however its loop ends.
C6_Handles ==
    /\ ~uaf
    /\ \A h \in Handles : acq[h] <= 1 /\ rel[h] <= acq[h]
    /\ pc = "done" /\ ended = "return" => \A h \in Handles : rel[h] = acq[h]
    /\ Returned(0) => \A h \in Handles : acq[h] = 1
    /\ pc \in {"gen_ret", "shift_info", "seq_rm", "seq_add", "reset_n_pos", "finish"} =>
          acq[Batch(pass)] = 1 /\ rel[Batch(pass)] = 1

C6_Witness ==
    /\ Returned(0)
    /\ " [EOS]" \in Range(out) /\ " [DECODE_FAILED]" \in Range(out)
    /\ \A h \in Handles : rel[h] = 1

\* C7 (as stated): in a run that returns 0 each of architecture detection, prompt
\* templating, tokenization, batched decode, cache removal, cache shift and sampling
\* is invoked exactly once.
C7_Original ==
    Returned(0) =>
        \A e \in {"get_model_arch", "build_prompt", "mtmd_tokenize", "llama_decode",
                  "llama_memory_seq_rm", "llama_memory_seq_add", "common_sampler_sample"} :
            Calls(e) = 1

\* C7 (amended): in a run that returns 0 architecture detection, prompt templating,
\* tokenization, prompt evaluation, cache removal and cache shift are each invoked
\* exactly once, in that order; sampling is invoked between 2 and 55 times and
\* llama_decode between 0 and 55 times, never more often than sampling.
C7_OnceInOrder ==
    Returned(0) =>
        /\ \A e \in {"get_model_arch", "build_prompt", "mtmd_tokenize", "mtmd_helper_eval_chunks",
                     "llama_memory_seq_rm", "llama_memory_seq_add"} : Calls(e) = 1
        /\ \E a \in Idx("get_model_arch"), b \in Idx("build_prompt"), t \in Idx("mtmd_tokenize"),
              e \in Idx("mtmd_helper_eval_chunks"), r \in Idx("llama_memory_seq_rm"),
              s \in Idx("llama_memory_seq_add") :
                a < b /\ b < t /\ t < e /\ e < r /\ r < s
        /\ Calls("common_sampler_sample") >= 2
        /\ Calls("common_sampler_sample") <= FirstCount + SecondCount
        /\ Calls("llama_decode") <= Calls("common_sampler_sample")

C7_Witness ==
    /\ Returned(0)
    /\ Calls("common_sampler_sample") = 55
    /\ Calls("llama_decode") = 55

\* steps a running generate_tokens call can still take, at most: a natural number
\* that every step of the call lowers
StepsLeft ==
    3 * (count - i) + (IF pc = "gen_sample" THEN 3
                       ELSE IF pc = "gen_decode" THEN 2
                       ELSE IF pc = "gen_free" THEN 1
                       ELSE 0)

\* C8: a generate_tokens(count) call makes at most count sample and count decode
\* calls (count is 5, then 50) and stops at the first of: count tokens sampled, an
\* end-of-generation token, a failed decode.  n_pos grows by the number of decode
\* calls: an end-of-generation token is accepted but neither decoded nor counted, a
\* token whose decode failed is counted.  Every call returns: inside the call a step
\* is always possible, stays inside the call until its return, and lowers StepsLeft.
C8_PassInv ==
    pc \in {"gen_sample", "gen_decode", "gen_free", "gen_ret"} =>
        LET start == PassStart
            samples == CallsAfter("common_sampler_sample", start)
            decodes == CallsAfter("llama_decode", start)
        IN  /\ count = (IF pass = 1 THEN 5 ELSE 50)
            /\ samples <= count /\ decodes <= count
            /\ i >= 0 /\ i <= count
            /\ ENABLED Next
            /\ CallsAfter("common_sampler_accept", start) = samples
            /\ n_pos - n_pos_entry = decodes
            /\ pc = "gen_sample" =>
                  /\ samples = decodes /\ samples = i /\ i < count
                  /\ ~LastSaid(" [EOS]") /\ ~LastSaid(" [DECODE_FAILED]")
                  /\ n_pos = llama_memory_seq_pos_max(cells) + 1
            /\ pc = "gen_decode" => samples = decodes + 1
            /\ pc = "gen_free" =>
                  \/ /\ LastSaid(" [EOS]")
                     /\ decodes = samples - 1
                     /\ n_pos = llama_memory_seq_pos_max(cells) + 1
                  \/ /\ LastSaid(" [DECODE_FAILED]")
                     /\ decodes = samples
                     /\ n_pos = llama_memory_seq_pos_max(cells) + 2
                  \/ /\ ~LastSaid(" [EOS]") /\ ~LastSaid(" [DECODE_FAILED]")
                     /\ samples = count /\ decodes = count

C8_PassStep ==
    pc \in {"gen_sample", "gen_decode", "gen_free"} =>
        /\ pc' \in {"gen_sample", "gen_decode", "gen_free", "gen_ret"}
        /\ StepsLeft' < StepsLeft
        /\ StepsLeft' >= 0
        /\ count' = count /\ pass' = pass /\ n_pos_entry' = n_pos_entry

C8_GenerateTokens == []C8_PassInv /\ [][C8_PassStep]_vars

C8_Witness ==
    /\ pc = "gen_ret" /\ pass = 2
    /\ CallsAfter("llama_decode", PassStart) = 50
    /\ " [DECODE_FAILED]" \in Range(out)

\* C9: every llama_decode of either pass submits its token at the largest cached
\* position of sequence 0 plus one, also in the second pass after a first pass that
\* ended with a failed decode.
C9_DecodeAtNext ==
    pc = "gen_decode" =>
        /\ n_pos = llama_memory_seq_pos_max(cells) + 1
        /\ n_pos \notin Positions(cells)

C9_Witness == pc = "gen_decode" /\ pass = 2 /\ FirstPassFailedDecode

\* C10: a failure at a setup stage stops every later stage: a run that returns 1 has
\* sampled and decoded nothing and has not edited the cache; a usage error makes no
\* library call; no stage is attempted twice.
C10_NoLaterStage ==
    /\ SetupFailed => Returned(1)
    /\ ended = "return" /\ exit_code = 1 =>
          /\ Calls("common_sampler_sample") = 0 /\ Calls("llama_decode") = 0
          /\ Calls("generate_tokens") = 0
          /\ Calls("llama_memory_seq_rm") = 0 /\ Calls("llama_memory_seq_add") = 0
    /\ pc = "done" /\ UsageError => trace = <<>>
    /\ pc = "done" /\ UnsupportedArch => Calls("common_init_from_params") = 0
    /\ "image_load" \in failed => Calls("build_prompt") = 0 /\ Calls("mtmd_tokenize") = 0
    /\ "tokenize" \in failed => Calls("mtmd_helper_eval_chunks") = 0
    /\ \A e \in {"common_init", "get_model_arch", "common_init_from_params",
                 "mtmd_init_from_file", "build_prompt", "mtmd_tokenize",
                 "mtmd_helper_eval_chunks", "common_sampler_init"} : Calls(e) <= 1
    /\ Calls("mtmd_helper_bitmap_init_from_file") <= 2

C10_Witness == Returned(1) /\ "tokenize" \in failed /\ Calls("mtmd_tokenize") = 1

====
